---- MODULE Spec2Model ----
(***************************************************************************)
(* Model of src/codegen/pcs.rs of halo2-solidity-verifier: the SHPLONK     *)
(* (BDFG21) code generator.  queries() builds the ordered query list,      *)
(* rotation_sets() partitions it, shplonk_computations() lays out scratch  *)
(* memory and emits the Yul program as groups of statements.  The emitted  *)
(* program is kept as a syntax tree and can be executed step by step.      *)
(***************************************************************************)
EXTENDS Integers, Sequences, FiniteSets, TLC

VARIABLES meta, data, pc, qs, part, out, xpc, env, success, failed, iters, nexec,
          proof, fenv, mem, reads

vars == <<meta, data, pc, qs, part, out, xpc, env, success, failed, iters, nexec,
          proof, fenv, mem, reads>>

(***************************************************************************)
(* Bounds of the explored inputs.                                          *)
(***************************************************************************)
MaxAdvice == 2
MaxPerm == 2
MaxLookup == 1
MaxFixed == 1
MaxPermCols == 1
ExecMaxAdvice == 1
ExecMaxPerm == 2
ExecMaxLookup == 1

\* (column, rotation) pairs the advice and fixed query lists are drawn from
AdviceQueryPool == {<<0, 0>>, <<0, 1>>, <<1, 0>>, <<1, -1>>}
FixedQueryPool == {<<0, 0>>, <<1, 1>>}
RotationLasts == {-2, 1}
AdviceColumns == {0, 1}
FixedColumns == {0, 1}

(***************************************************************************)
(* Generic helpers.                                                        *)
(***************************************************************************)
RECURSIVE SeqsUpTo(_, _)
SeqsUpTo(S, n) ==
    IF n = 0 THEN {<<>>}
    ELSE LET shorter == SeqsUpTo(S, n - 1)
         IN shorter \cup {Append(s, x) : s \in {t \in shorter : Len(t) = n - 1}, x \in S}

Min(S) == CHOOSE x \in S : \A y \in S : x <= y
Max(S) == CHOOSE x \in S : \A y \in S : y <= x

\* iteration order of a BTreeSet<i32> / the keys of a BTreeMap<i32, _>: ascending
RECURSIVE Ascending(_)
Ascending(S) == IF S = {} THEN <<>> ELSE <<Min(S)>> \o Ascending(S \ {Min(S)})

RECURSIVE Concat(_)
Concat(ss) == IF ss = <<>> THEN <<>> ELSE Head(ss) \o Concat(Tail(ss))

Reverse(s) == [i \in 1..Len(s) |-> s[Len(s) + 1 - i]]

\* Iterator::position over the places of s that are in hits: the first, 0 for None
Position(hits) == IF hits = {} THEN 0 ELSE Min(hits)

(***************************************************************************)
(* Query (lines 11-26) and the inputs of queries().                        *)
(***************************************************************************)
Query(comm, rotation, eval) == [comm |-> comm, rotation |-> rotation, eval |-> eval]

\* The Data bundle for P grand-product commitments and L lookup arguments.
\* Commitment handles are <<category, index>>, compared by value; fixed
\* column 1 carries the same handle as advice column 0.
DataOf(P, L) ==
    [advice_comms |-> [c \in AdviceColumns |-> <<"advice", c>>],
     advice_evals |-> [q \in AdviceQueryPool |-> <<"advice_eval", q[1], q[2]>>],
     permutation_z_comms |-> [i \in 1..P |-> <<"permutation_z", i>>],
     permutation_z_evals |->
        [i \in 1..P |-> <<(<<"perm_z_eval", i, 0>>), (<<"perm_z_eval", i, 1>>),
                          (<<"perm_z_eval", i, 2>>)>>],
     lookup_permuted_comms |->
        [i \in 1..L |-> <<(<<"lookup_input", i>>), (<<"lookup_table", i>>)>>],
     lookup_z_comms |-> [i \in 1..L |-> <<"lookup_z", i>>],
     lookup_evals |-> [i \in 1..L |-> [k \in 1..5 |-> <<"lookup_eval", i, k>>]],
     fixed_comms |-> [c \in FixedColumns |->
                        IF c = 1 THEN <<"advice", 0>> ELSE <<"fixed", c>>],
     fixed_evals |-> [q \in FixedQueryPool |-> <<"fixed_eval", q[1], q[2]>>],
     permutation_comms |-> [c \in 0..MaxPermCols |-> <<"permutation", c>>],
     permutation_evals |-> [c \in 0..MaxPermCols |-> <<"permutation_eval", c, 0>>],
     quotient_comm |-> <<"quotient", 0>>,
     quotient_eval |-> <<"quotient_eval", 0, 0>>,
     random_comm |-> <<"random", 0>>,
     random_eval |-> <<"random_eval", 0, 0>>,
     w_cptr |-> 1024]

MetaOf(advice, fixed, ncols, last) ==
    [advice_queries |-> advice,
     fixed_queries |-> fixed,
     permutation_columns |-> [i \in 1..ncols |-> i - 1],
     rotation_last |-> last]

(***************************************************************************)
(* queries() (lines 28-75): the chain of seven iterators.                  *)
(***************************************************************************)
advice_part(m, d) ==
    [i \in 1..Len(m.advice_queries) |->
        LET query == m.advice_queries[i]
        IN Query(d.advice_comms[query[1]], query[2], d.advice_evals[query])]

permutation_z_part(m, d) ==
    Concat([i \in 1..Len(d.permutation_z_comms) |->
        LET comm == d.permutation_z_comms[i]
            evals == d.permutation_z_evals[i]
        IN <<Query(comm, 0, evals[1]), Query(comm, 1, evals[2])>>])

\* mutant: .rev() forgotten, so skip(1) drops the first grand product
permutation_z_last_part_norev(m, d) ==
    LET zs == [i \in 1..Len(d.permutation_z_comms) |->
                  Query(d.permutation_z_comms[i], m.rotation_last,
                        d.permutation_z_evals[i][3])]
    IN IF zs = <<>> THEN <<>> ELSE Tail(zs)

\* izip!(..).rev().skip(1): every grand product but the last, in reverse
permutation_z_last_part(m, d) ==
    LET zs == [i \in 1..Len(d.permutation_z_comms) |->
                  Query(d.permutation_z_comms[i], m.rotation_last,
                        d.permutation_z_evals[i][3])]
        rev == Reverse(zs)
    IN IF rev = <<>> THEN <<>> ELSE Tail(rev)

lookup_part(m, d) ==
    Concat([i \in 1..Len(d.lookup_z_comms) |->
        LET permuted_comms == d.lookup_permuted_comms[i]
            z_comm == d.lookup_z_comms[i]
            evals == d.lookup_evals[i]
        IN <<Query(z_comm, 0, evals[1]),
             Query(permuted_comms[1], 0, evals[3]),
             Query(permuted_comms[2], 0, evals[5]),
             Query(permuted_comms[1], -1, evals[4]),
             Query(z_comm, 1, evals[2])>>])

fixed_part(m, d) ==
    [i \in 1..Len(m.fixed_queries) |->
        LET query == m.fixed_queries[i]
        IN Query(d.fixed_comms[query[1]], query[2], d.fixed_evals[query])]

permutation_part(m, d) ==
    [i \in 1..Len(m.permutation_columns) |->
        LET column == m.permutation_columns[i]
        IN Query(d.permutation_comms[column], 0, d.permutation_evals[column])]

quotient_random_part(m, d) ==
    <<Query(d.quotient_comm, 0, d.quotient_eval),
      Query(d.random_comm, 0, d.random_eval)>>

queries(m, d) ==
    advice_part(m, d) \o permutation_z_part(m, d) \o permutation_z_last_part(m, d)
        \o lookup_part(m, d) \o fixed_part(m, d) \o permutation_part(m, d)
        \o quotient_random_part(m, d)

(***************************************************************************)
(* rotation_sets() (lines 103-157).                                        *)
(***************************************************************************)
\* U256Expr::to_string: the rendered text of an evaluation expression
to_string(eval) == <<"text">> \o eval

\* BTreeMap::into_values / keys: in ascending key order
into_values(map) == [i \in 1..Cardinality(DOMAIN map) |-> map[Ascending(DOMAIN map)[i]]]

\* mutant: handles never compare equal, every query opens a new entry
comm_queries_step_nomerge(st, query, i) ==
    [st EXCEPT !.superset = st.superset \cup {query.rotation},
               !.comm_queries = Append(@,
                   [comm |-> query.comm,
                    queries |-> (query.rotation :> to_string(query.eval))])]

\* mutant: no assert!, a repeated rotation overwrites the evaluation
comm_queries_step_noassert(st, query, i) ==
    LET sup == st.superset \cup {query.rotation}
        pos == Position({k \in 1..Len(st.comm_queries) : st.comm_queries[k].comm = query.comm})
    IN IF pos # 0
       THEN [st EXCEPT !.superset = sup,
                       !.comm_queries[pos].queries =
                           (query.rotation :> to_string(query.eval)) @@ @]
       ELSE [st EXCEPT !.superset = sup,
                       !.comm_queries = Append(@,
                           [comm |-> query.comm,
                            queries |-> (query.rotation :> to_string(query.eval))])]

\* One step of the first fold (lines 107-123) on query number i.  panic is the
\* number of the query at which assert! failed, 0 while none has.
comm_queries_step(st, query, i) ==
    LET sup == st.superset \cup {query.rotation}
        pos == Position({k \in 1..Len(st.comm_queries) : st.comm_queries[k].comm = query.comm})
    IN IF pos # 0
       THEN IF query.rotation \in DOMAIN st.comm_queries[pos].queries
            THEN [st EXCEPT !.superset = sup, !.panic = i]
            ELSE [st EXCEPT !.superset = sup,
                            !.comm_queries[pos].queries =
                                (query.rotation :> to_string(query.eval)) @@ @]
       ELSE [st EXCEPT !.superset = sup,
                       !.comm_queries = Append(@,
                           [comm |-> query.comm,
                            queries |-> (query.rotation :> to_string(query.eval))])]

RECURSIVE fold_comm_queries(_, _, _)
fold_comm_queries(q, i, st) ==
    IF i > Len(q) \/ st.panic # 0 THEN st
    ELSE fold_comm_queries(q, i + 1, comm_queries_step(st, q[i], i))

\* mutant: the complement is taken in the rotations of the sets made so far
diffs_of_sofar(superset, sets, keys) ==
    {rotation \in UNION {sets[k].rotations : k \in 1..Len(sets)} : rotation \notin keys}

\* diffs of a new set (lines 140-145); sets: the sets made before it
diffs_of(superset, sets, keys) == {rotation \in superset : rotation \notin keys}

\* mutant: a new set is put in front of the earlier ones
rotation_sets_step_front(superset, sets, cq) ==
    LET keys == DOMAIN cq.queries
        pos == Position({k \in 1..Len(sets) : sets[k].rotations = keys})
    IN IF pos # 0
       THEN [sets EXCEPT ![pos].comms = Append(@, cq.comm),
                         ![pos].evals = Append(@, into_values(cq.queries))]
       ELSE <<[rotations |-> keys,
               diffs |-> {rotation \in superset : rotation \notin keys},
               comms |-> <<cq.comm>>,
               evals |-> <<into_values(cq.queries)>>]>> \o sets

\* One step of the second fold (lines 129-155).
rotation_sets_step(superset, sets, cq) ==
    LET keys == DOMAIN cq.queries
        pos == Position({k \in 1..Len(sets) : sets[k].rotations = keys})
    IN IF pos # 0
       THEN IF \E j \in 1..Len(sets[pos].comms) : sets[pos].comms[j] = cq.comm
            THEN sets
            ELSE [sets EXCEPT ![pos].comms = Append(@, cq.comm),
                              ![pos].evals = Append(@, into_values(cq.queries))]
       ELSE Append(sets, [rotations |-> keys,
                          diffs |-> diffs_of(superset, sets, keys),
                          comms |-> <<cq.comm>>,
                          evals |-> <<into_values(cq.queries)>>])

RECURSIVE fold_rotation_sets(_, _, _, _)
fold_rotation_sets(superset, cqs, i, sets) ==
    IF i > Len(cqs) THEN sets
    ELSE fold_rotation_sets(superset, cqs, i + 1,
                            rotation_sets_step(superset, sets, cqs[i]))

\* The result: panic = 0 and (superset, sets) when the function returns,
\* panic = the query at which assert! failed otherwise (nothing is returned).
rotation_sets(q) ==
    LET st == fold_comm_queries(q, 1, [superset |-> {}, comm_queries |-> <<>>, panic |-> 0])
    IN IF st.panic # 0
       THEN [panic |-> st.panic, superset |-> {}, sets |-> <<>>]
       ELSE [panic |-> 0, superset |-> st.superset,
             sets |-> fold_rotation_sets(st.superset, st.comm_queries, 1, <<>>)]

(***************************************************************************)
(* shplonk_computations(): the scratch memory layout (lines 163-198).      *)
(* Addresses are byte offsets.                                             *)
(***************************************************************************)
WORD == 32

RECURSIVE SumLen(_, _)
SumLen(sets, n) == IF n = 0 THEN 0 ELSE Cardinality(sets[n].rotations) + SumLen(sets, n - 1)

\* rank of a rotation in the ascending superset, from 0 (superset.iter().zip(0..))
Rank(superset, rotation) == Cardinality({x \in superset : x < rotation})

diff_0_mptr == 0

\* mutant: the coefficient arrays start on the diff-zero word
coeff_mptr_of_at_zero(sets) ==
    [i \in 1..Len(sets) |-> diff_0_mptr + SumLen(sets, i - 1) * WORD]

\* scan from diff_0_mptr + 0x20 adding |rotations| * 0x20 per set (lines 166-173)
coeff_mptr_of(sets) ==
    [i \in 1..Len(sets) |-> diff_0_mptr + WORD + SumLen(sets, i - 1) * WORD]

batch_invert_1_end_of(sets) == (1 + SumLen(sets, Len(sets))) * WORD

batch_invert_2_end_of(sets) == Len(sets) * WORD

free_mptr_of(sets) == batch_invert_1_end_of(sets) * 2 + 6 * WORD

\* mutant: the mu-minus-point table is left out of the offset
vanishing_mptr_of_short(superset, sets) == free_mptr_of(sets) + Cardinality(superset) * WORD

vanishing_mptr_of(superset, sets) == free_mptr_of(sets) + Cardinality(superset) * 2 * WORD

layout(superset, sets) ==
    LET free_mptr == free_mptr_of(sets)
        vanishing_mptr == vanishing_mptr_of(superset, sets)
        diff_mptr == vanishing_mptr + WORD
        r_eval_mptr == diff_mptr + Len(sets) * WORD
    IN [diff_0_mptr |-> diff_0_mptr,
        coeff_mptr |-> coeff_mptr_of(sets),
        batch_invert_1_end |-> batch_invert_1_end_of(sets),
        batch_invert_2_end |-> batch_invert_2_end_of(sets),
        free_mptr |-> free_mptr,
        min_rotation |-> Min(superset),
        max_rotation |-> Max(superset),
        point_idx |-> [rot \in superset |-> Rank(superset, rot)],
        point_mptr |-> [rot \in superset |-> free_mptr + Rank(superset, rot) * WORD],
        mu_minus_point_mptr |->
            [rot \in superset |->
                free_mptr + Cardinality(superset) * WORD + Rank(superset, rot) * WORD],
        vanishing_mptr |-> vanishing_mptr,
        diff_mptr |-> diff_mptr,
        r_eval_mptr |-> r_eval_mptr,
        sum_mptr |-> r_eval_mptr + Len(sets) * WORD]

(***************************************************************************)
(* The emitted Yul text as a syntax tree.  Expressions:                    *)
(*   <<"lit", n>>  <<"sym", NAME>>  <<"var", name, k>>  <<"call", f, args>> *)
(*   <<"text", ...>> (a rendered evaluation)  <<"x"|"y", comm>>            *)
(* Statements: <<"let", var, e>>, <<"decl", var>>, <<"assign", var, e>>,   *)
(*   <<"mstore", addr, e>>, <<"for", init, cond, body>>.                   *)
(***************************************************************************)
Lit(n) == <<"lit", n>>
Sym(name) == <<"sym", name>>
Var(name) == <<"var", name, 0>>
VarK(name, k) == <<"var", name, k>>
Call(f, args) == <<"call", f, args>>
Mload(a) == Call("mload", <<a>>)
MloadAt(n) == Mload(Lit(n))
Mulmod(a, b) == Call("mulmod", <<a, b, Sym("r")>>)
Addmod(a, b) == Call("addmod", <<a, b, Sym("r")>>)
Neg(a) == Call("sub", <<Sym("r"), a>>)
X(comm) == <<"x", comm>>
Y(comm) == <<"y", comm>>

Let(v, e) == <<"let", v, e>>
Decl(v) == <<"decl", v>>
Assign(v, e) == <<"assign", v, e>>
Mstore(a, e) == <<"mstore", a, e>>
For(init, cond, body) == <<"for", init, cond, body>>

\* mutant: the flag is assigned but not passed
Fallible_unthreaded(f, args) == Assign(Var("success"), Call(f, args))

\* "success := f(success, args)": the call form of the fallible primitives
Fallible(f, args) == Assign(Var("success"), Call(f, <<Var("success")>> \o args))

\* a statement with the stage (a)..(k) of the code block that emits it
Tag(stage, stmts) == [i \in 1..Len(stmts) |-> [stage |-> stage, stmt |-> stmts[i]]]

\* bool::then and Option::map as a zero- or one-element sequence
Then(cond, stmts) == IF cond THEN stmts ELSE <<>>

\* the integers lo, lo+1, .., hi as a sequence (empty when hi < lo)
Range(lo, hi) == [i \in 1..(hi - lo + 1) |-> lo + i - 1]

(***************************************************************************)
(* shplonk_computations(): the emitted groups (lines 200-602).             *)
(***************************************************************************)
\* (a) power table (lines 202-238)
power_table(superset, L) ==
    LET x_pow == Var("x_pow_of_omega")
    IN <<Let(Var("x"), Mload(Sym("X_MPTR"))),
         Let(Var("omega"), Mload(Sym("OMEGA_MPTR"))),
         Let(Var("omega_inv"), Mload(Sym("OMEGA_INV_MPTR"))),
         Let(x_pow, Mulmod(Var("x"), Var("omega")))>>
       \o Concat([k \in 1..Len(Range(1, L.max_rotation)) |->
            LET rotation == Range(1, L.max_rotation)[k]
            IN Then(rotation \in superset,
                    <<Mstore(Lit(L.point_mptr[rotation]), x_pow)>>)
               \o Then(rotation # L.max_rotation,
                       <<Assign(x_pow, Mulmod(x_pow, Var("omega")))>>)])
       \o <<Mstore(Lit(L.point_mptr[0]), Var("x")),
            Assign(x_pow, Mulmod(Var("x"), Var("omega_inv")))>>
       \o Concat([k \in 1..Len(Range(L.min_rotation, -1)) |->
            LET rotation == Reverse(Range(L.min_rotation, -1))[k]
            IN Then(rotation \in superset,
                    <<Mstore(Lit(L.point_mptr[rotation]), x_pow)>>)
               \o Then(rotation # L.min_rotation,
                       <<Assign(x_pow, Mulmod(x_pow, Var("omega_inv")))>>)])

\* (b) mu-minus-point table (lines 240-262)
mu_minus_point_table(superset, L) ==
    <<Let(Var("mu"), Mload(Sym("MU_MPTR"))),
      For(<<Let(Var("mptr"), Lit(L.free_mptr + Cardinality(superset) * WORD)),
            Let(Var("mptr_end"), Lit(L.free_mptr + Cardinality(superset) * 2 * WORD)),
            Let(Var("point_mptr"), Lit(L.free_mptr))>>,
          Call("lt", <<Var("mptr"), Var("mptr_end")>>),
          <<Mstore(Var("mptr"), Addmod(Var("mu"), Neg(Mload(Var("point_mptr"))))),
            Assign(Var("mptr"), Call("add", <<Var("mptr"), Lit(WORD)>>)),
            Assign(Var("point_mptr"), Call("add", <<Var("point_mptr"), Lit(WORD)>>))>>)>>

\* "v := mload(first)" then "v := mulmod(v, mload(next), r)" over the rotations
\* in ascending order; .first().unwrap() needs a non-empty set
product_of(v, rotations, L) ==
    LET rs == Ascending(rotations)
    IN <<Assign(v, MloadAt(L.mu_minus_point_mptr[rs[1]]))>>
       \o [k \in 1..(Len(rs) - 1) |->
             Assign(v, Mulmod(v, MloadAt(L.mu_minus_point_mptr[rs[k + 1]])))]

\* (c) vanishing factor (lines 263-274)
vanishing(sets, L) ==
    <<Decl(Var("s"))>> \o product_of(Var("s"), sets[1].rotations, L)
        \o <<Mstore(Lit(L.vanishing_mptr), Var("s"))>>

\* (d) per-set diff products (lines 275-294)
diff_products(sets, L) ==
    <<Decl(Var("diff"))>>
    \o Concat([i \in 1..Len(sets) |->
        LET mptr == L.diff_mptr + (i - 1) * WORD
        IN product_of(Var("diff"), sets[i].diffs, L)
           \o <<Mstore(Lit(mptr), Var("diff"))>>
           \o Then(mptr = L.diff_mptr, <<Mstore(Lit(L.diff_0_mptr), Var("diff"))>>)])

\* (f) barycentric coefficients of set number idx (lines 301-358)
coefficients(sets, L, idx) ==
    LET set == sets[idx]
        rs == Ascending(set.rotations)
        point(rotation) == VarK("point", L.point_idx[rotation])
        \* coeff_rotations[i]: the pairs (rotation_i, rotation_j), j # i
        others(i) == [k \in 1..(Len(rs) - 1) |-> IF k < i THEN rs[k] ELSE rs[k + 1]]
        term(i, k) == Addmod(point(rs[i]), Neg(point(others(i)[k])))
    IN [k \in 1..Len(rs) |-> Let(point(rs[k]), MloadAt(L.point_mptr[rs[k]]))]
       \o <<Decl(Var("coeff"))>>
       \o Concat([i \in 1..Len(rs) |->
            <<IF Len(rs) > 1 THEN Assign(Var("coeff"), term(i, 1))
                             ELSE Assign(Var("coeff"), Lit(1))>>
            \o [k \in 1..(Len(rs) - 2) |->
                  Assign(Var("coeff"), Mulmod(Var("coeff"), term(i, k + 1)))]
            \o <<Assign(Var("coeff"),
                        Mulmod(Var("coeff"), MloadAt(L.mu_minus_point_mptr[rs[i]]))),
                 Mstore(Lit(L.coeff_mptr[idx] + (i - 1) * WORD), Var("coeff"))>>])

\* (e) batch inversion 1 and the normalisation of the diff products (lines 360-385)
batch_invert_1(sets, L) ==
    <<Fallible("batch_invert", <<Lit(L.batch_invert_1_end), Sym("r")>>),
      Let(Var("diff_0_inv"), MloadAt(L.diff_0_mptr)),
      Mstore(Lit(L.diff_mptr), Var("diff_0_inv")),
      For(<<Let(Var("mptr"), Lit(L.diff_mptr + WORD)),
            Let(Var("mptr_end"), Lit(L.diff_mptr + Len(sets) * WORD))>>,
          Call("lt", <<Var("mptr"), Var("mptr_end")>>),
          <<Mstore(Var("mptr"), Mulmod(Mload(Var("mptr")), Var("diff_0_inv"))),
            Assign(Var("mptr"), Call("add", <<Var("mptr"), Lit(WORD)>>))>>)>>

\* mutant: zeta is multiplied in after every commitment, the first included
r_eval_of_set_zeta_all(sets, L, idx) ==
    LET set == sets[idx]
        r_eval == Var("r_eval")
    IN <<Let(Var("zeta"), Mload(Sym("ZETA_MPTR"))), Let(r_eval, Lit(0))>>
       \o Concat([k \in 1..Len(set.evals) |->
            LET j == Len(set.evals) + 1 - k
                evals == set.evals[j]
            IN [n \in 1..Len(evals) |->
                  Assign(r_eval, Addmod(r_eval,
                      Mulmod(MloadAt(L.coeff_mptr[idx] + (n - 1) * WORD), evals[n])))]
               \o <<Assign(r_eval, Mulmod(r_eval, Var("zeta")))>>])
       \o Then(idx # 1,
               <<Assign(r_eval, Mulmod(r_eval, MloadAt(L.diff_mptr + (idx - 1) * WORD)))>>)
       \o <<Mstore(Lit(L.r_eval_mptr + (idx - 1) * WORD), r_eval)>>

\* (h) r_eval of set number idx (lines 392-422); the code's idx is idx - 1
r_eval_of_set(sets, L, idx) ==
    LET set == sets[idx]
        r_eval == Var("r_eval")
    IN <<Let(Var("zeta"), Mload(Sym("ZETA_MPTR"))), Let(r_eval, Lit(0))>>
       \o Concat([k \in 1..Len(set.evals) |->
            LET j == Len(set.evals) + 1 - k
                evals == set.evals[j]
            IN [n \in 1..Len(evals) |->
                  Assign(r_eval, Addmod(r_eval,
                      Mulmod(MloadAt(L.coeff_mptr[idx] + (n - 1) * WORD), evals[n])))]
               \o Then(j # 1, <<Assign(r_eval, Mulmod(r_eval, Var("zeta")))>>)])
       \o Then(idx # 1,
               <<Assign(r_eval, Mulmod(r_eval, MloadAt(L.diff_mptr + (idx - 1) * WORD)))>>)
       \o <<Mstore(Lit(L.r_eval_mptr + (idx - 1) * WORD), r_eval)>>

\* coefficient sum of set number idx (lines 424-438)
coeff_sum(sets, L, idx) ==
    LET n == Cardinality(sets[idx].rotations)
    IN <<Let(Var("sum"), MloadAt(L.coeff_mptr[idx]))>>
       \o [k \in 1..(n - 1) |->
             Assign(Var("sum"), Addmod(Var("sum"), MloadAt(L.coeff_mptr[idx] + k * WORD)))]
       \o <<Mstore(Lit(L.sum_mptr + (idx - 1) * WORD), Var("sum"))>>

\* (g) the sums copied to 0x00.. and batch inversion 2 (lines 442-461)
batch_invert_2(sets, L) ==
    <<For(<<Let(Var("mptr"), Lit(0)),
            Let(Var("mptr_end"), Lit(L.batch_invert_2_end)),
            Let(Var("sum_mptr"), Lit(L.sum_mptr))>>,
          Call("lt", <<Var("mptr"), Var("mptr_end")>>),
          <<Mstore(Var("mptr"), Mload(Var("sum_mptr"))),
            Assign(Var("mptr"), Call("add", <<Var("mptr"), Lit(WORD)>>)),
            Assign(Var("sum_mptr"), Call("add", <<Var("sum_mptr"), Lit(WORD)>>))>>),
      Fallible("batch_invert", <<Lit(L.batch_invert_2_end), Sym("r")>>)>>

\* mutant: the loop starts at the last sum, which the seed has already taken
sum_inv_start_last(L) == L.batch_invert_2_end - WORD

\* first value of sum_inv_mptr in the aggregate loop (line 472)
sum_inv_start(L) == L.batch_invert_2_end - 2 * WORD

\* (i) aggregate r_eval (lines 462-492)
aggregate_r_eval(sets, L) ==
    <<Let(Var("r_eval"),
          Mulmod(MloadAt(L.batch_invert_2_end - WORD),
                 MloadAt(L.r_eval_mptr + (Len(sets) - 1) * WORD))),
      For(<<Let(Var("sum_inv_mptr"), Lit(sum_inv_start(L))),
            Let(Var("sum_inv_mptr_end"), Lit(L.batch_invert_2_end)),
            Let(Var("r_eval_mptr"), Lit(L.r_eval_mptr + (Len(sets) - 2) * WORD))>>,
          Call("lt", <<Var("sum_inv_mptr"), Var("sum_inv_mptr_end")>>),
          <<Assign(Var("r_eval"), Mulmod(Var("r_eval"), Mload(Sym("NU_MPTR")))),
            Assign(Var("r_eval"),
                   Addmod(Var("r_eval"),
                          Mulmod(Mload(Var("sum_inv_mptr")), Mload(Var("r_eval_mptr"))))),
            Assign(Var("sum_inv_mptr"), Call("sub", <<Var("sum_inv_mptr"), Lit(WORD)>>)),
            Assign(Var("r_eval_mptr"), Call("sub", <<Var("r_eval_mptr"), Lit(WORD)>>))>>),
      Mstore(Sym("R_EVAL_MPTR"), Var("r_eval"))>>

\* mutant: the diff product is skipped for the last set, not the first
msm_of_set_last_unscaled(sets, L, idx) ==
    LET set == sets[idx]
        last == Len(sets)
        comms == Reverse(set.comms)
        zeta == Mload(Sym("ZETA_MPTR"))
        diff == Mload(Lit(L.diff_mptr + (idx - 1) * WORD))
    IN (IF idx = last
        THEN <<Mstore(Lit(0), X(comms[1])), Mstore(Lit(32), Y(comms[1]))>>
        ELSE <<Mstore(Lit(128), X(comms[1])), Mstore(Lit(160), Y(comms[1]))>>)
       \o Concat([k \in 1..(Len(comms) - 1) |->
            LET comm == comms[k + 1]
            IN IF idx = last
               THEN <<Fallible("ec_mul_acc", <<zeta>>),
                      Fallible("ec_add_acc", <<X(comm), Y(comm)>>)>>
               ELSE <<Fallible("ec_mul_tmp", <<zeta>>),
                      Fallible("ec_add_tmp", <<X(comm), Y(comm)>>)>>])
       \o Then(idx # last,
               <<Fallible("ec_mul_tmp", <<diff>>),
                 Fallible("ec_mul_acc", <<Mload(Sym("NU_MPTR"))>>),
                 Fallible("ec_add_acc", <<MloadAt(128), MloadAt(160)>>)>>)

\* (j) the block of set number idx of the multi-scalar accumulation
\* (lines 500-563); the code's set_idx is idx - 1
msm_of_set(sets, L, idx) ==
    LET set == sets[idx]
        last == Len(sets)
        comms == Reverse(set.comms)
        zeta == Mload(Sym("ZETA_MPTR"))
        diff == Mload(Lit(L.diff_mptr + (idx - 1) * WORD))
    IN Then(set.comms # <<>>,
            IF idx = last
            THEN <<Mstore(Lit(0), X(comms[1])), Mstore(Lit(32), Y(comms[1]))>>
            ELSE <<Mstore(Lit(128), X(comms[1])), Mstore(Lit(160), Y(comms[1]))>>)
       \o Concat([k \in 1..(Len(comms) - 1) |->
            LET comm == comms[k + 1]
            IN IF idx = last
               THEN <<Fallible("ec_mul_acc", <<zeta>>),
                      Fallible("ec_add_acc", <<X(comm), Y(comm)>>)>>
               ELSE <<Fallible("ec_mul_tmp", <<zeta>>),
                      Fallible("ec_add_tmp", <<X(comm), Y(comm)>>)>>])
       \o Then(idx # 1,
               IF idx = last THEN <<Fallible("ec_mul_acc", <<diff>>)>>
                             ELSE <<Fallible("ec_mul_tmp", <<diff>>)>>)
       \o Then(idx # last,
               <<Fallible("ec_mul_acc", <<Mload(Sym("NU_MPTR"))>>),
                 Fallible("ec_add_acc", <<MloadAt(128), MloadAt(160)>>)>>)

\* (j) rotation_sets.iter().enumerate().rev() (lines 496-563)
msm(sets, L) ==
    Concat([k \in 1..Len(sets) |-> msm_of_set(sets, L, Len(sets) + 1 - k)])

\* (k) pairing inputs (lines 564-597)
pairing_inputs(L, d) ==
    LET w_prime_cptr == d.w_cptr + 2 * WORD
        add_tmp == Fallible("ec_add_acc", <<MloadAt(128), MloadAt(160)>>)
        calldataload(n) == Call("calldataload", <<Lit(n)>>)
    IN <<Mstore(Lit(128), Mload(Sym("G1_X_MPTR"))),
         Mstore(Lit(160), Mload(Sym("G1_Y_MPTR"))),
         Fallible("ec_mul_tmp", <<Neg(Mload(Sym("R_EVAL_MPTR")))>>),
         add_tmp,
         Mstore(Lit(128), calldataload(d.w_cptr)),
         Mstore(Lit(160), calldataload(d.w_cptr + WORD)),
         Fallible("ec_mul_tmp", <<Neg(MloadAt(L.vanishing_mptr))>>),
         add_tmp,
         Mstore(Lit(128), calldataload(w_prime_cptr)),
         Mstore(Lit(160), calldataload(w_prime_cptr + WORD)),
         Fallible("ec_mul_tmp", <<Mload(Sym("MU_MPTR"))>>),
         add_tmp,
         Mstore(Sym("PAIRING_LHS_X_MPTR"), MloadAt(0)),
         Mstore(Sym("PAIRING_LHS_Y_MPTR"), MloadAt(32)),
         Mstore(Sym("PAIRING_RHS_X_MPTR"), calldataload(w_prime_cptr)),
         Mstore(Sym("PAIRING_RHS_Y_MPTR"), calldataload(w_prime_cptr + WORD))>>

\* mutant: the groups in the order (a)..(k) of the stage list, each batch
\* inversion ahead of the stage it is listed before
groups_of_listed(superset, sets, L, d) ==
    <<Tag("a", power_table(superset, L)),
      Tag("b", mu_minus_point_table(superset, L)) \o Tag("c", vanishing(sets, L))
          \o Tag("d", diff_products(sets, L)),
      Tag("e", batch_invert_1(sets, L))>>
    \o [i \in 1..Len(sets) |-> Tag("f", coefficients(sets, L, i))]
    \o [i \in 1..Len(sets) |-> Tag("sum", coeff_sum(sets, L, i))]
    \o <<Tag("g", batch_invert_2(sets, L))>>
    \o [i \in 1..Len(sets) |-> Tag("h", r_eval_of_set(sets, L, i))]
    \o <<Tag("i", aggregate_r_eval(sets, L)),
         Tag("j", msm(sets, L)) \o Tag("k", pairing_inputs(L, d))>>

\* the outer chain![] of lines 200-602: the groups in the order they are returned
groups_of(superset, sets, L, d) ==
    <<Tag("a", power_table(superset, L)),
      Tag("b", mu_minus_point_table(superset, L)) \o Tag("c", vanishing(sets, L))
          \o Tag("d", diff_products(sets, L))>>
    \o [i \in 1..Len(sets) |-> Tag("f", coefficients(sets, L, i))]
    \o <<Tag("e", batch_invert_1(sets, L))>>
    \o [i \in 1..Len(sets) |-> Tag("h", r_eval_of_set(sets, L, i))]
    \o [i \in 1..Len(sets) |-> Tag("sum", coeff_sum(sets, L, i))]
    \o <<Tag("g", batch_invert_2(sets, L)) \o Tag("i", aggregate_r_eval(sets, L)),
         Tag("j", msm(sets, L)) \o Tag("k", pairing_inputs(L, d))>>

\* What the unwrap()s and map indexings of lines 183-294 need: a non-empty
\* superset holding rotation 0, a first set, and a non-empty diffs in every set.
\* (With these, there are at least two sets, so the usize subtractions of
\* lines 464-477 do not underflow.)
emits(superset, sets) ==
    /\ 0 \in superset
    /\ sets # <<>>
    /\ \A i \in 1..Len(sets) : sets[i].diffs # {} /\ sets[i].rotations # {}

\* mutant: the groups collected before the panic are handed back
emit_partial(superset, sets, d) ==
    IF emits(superset, sets)
    THEN [panic |-> FALSE, groups |-> groups_of(superset, sets, layout(superset, sets), d)]
    ELSE [panic |-> TRUE,
          groups |-> <<Tag("a", power_table(superset, layout(superset, sets)))>>]

\* lines 163-602 on the result of rotation_sets(): panic, or the groups
emit(superset, sets, d) ==
    IF emits(superset, sets)
    THEN [panic |-> FALSE, groups |-> groups_of(superset, sets, layout(superset, sets), d)]
    ELSE [panic |-> TRUE, groups |-> <<>>]

shplonk_computations(m, d) ==
    LET rs == rotation_sets(queries(m, d))
    IN IF rs.panic # 0 THEN [panic |-> TRUE, groups |-> <<>>]
       ELSE emit(rs.superset, rs.sets, d)

(***************************************************************************)
(* Execution of the emitted statements.  Pointers are 256-bit words, kept  *)
(* as 16 little-endian limbs of 16 bits; add and sub wrap modulo 2^256.    *)
(* To the pointer arithmetic, field and curve values are opaque.           *)
(***************************************************************************)
Base == 2 ^ 16
Limbs == 256 \div 16

\* a natural number below 2^31 as a word
ToU256(n) == [k \in 1..Limbs |-> IF k = 1 THEN n % Base
                                 ELSE IF k = 2 THEN n \div Base ELSE 0]

IsSmall(a) == \A k \in 3..Limbs : a[k] = 0

\* the value of a word below 2^32
U256ToInt(a) == a[1] + a[2] * Base

RECURSIVE AddCarry(_, _, _)
\* carry into limb k of a + b
AddCarry(a, b, k) ==
    IF k = 1 THEN 0 ELSE (a[k - 1] + b[k - 1] + AddCarry(a, b, k - 1)) \div Base

U256Add(a, b) == [k \in 1..Limbs |-> (a[k] + b[k] + AddCarry(a, b, k)) % Base]

RECURSIVE SubBorrow(_, _, _)
\* borrow out of the limbs below k of a - b
SubBorrow(a, b, k) ==
    IF k = 1 THEN 0
    ELSE IF a[k - 1] - b[k - 1] - SubBorrow(a, b, k - 1) < 0 THEN 1 ELSE 0

U256Sub(a, b) == [k \in 1..Limbs |-> (a[k] - b[k] - SubBorrow(a, b, k) + Base) % Base]

U256Lt(a, b) == \E k \in 1..Limbs : a[k] < b[k] /\ \A j \in (k + 1)..Limbs : a[j] = b[j]

Opaque == <<>>

RECURSIVE Eval(_, _)
Eval(e, en) ==
    IF e[1] = "lit" THEN ToU256(e[2])
    ELSE IF e[1] = "var" THEN (IF e \in DOMAIN en THEN en[e] ELSE Opaque)
    ELSE IF e[1] = "call" /\ e[2] \in {"add", "sub"}
    THEN LET a == Eval(e[3][1], en)
             b == Eval(e[3][2], en)
         IN IF a = Opaque \/ b = Opaque THEN Opaque
            ELSE IF e[2] = "add" THEN U256Add(a, b) ELSE U256Sub(a, b)
    ELSE Opaque

\* the loop conditions are all lt(pointer, pointer)
EvalCond(e, en) == U256Lt(Eval(e[3][1], en), Eval(e[3][2], en))

FalliblePrimitives == {"batch_invert", "ec_mul_acc", "ec_add_acc", "ec_mul_tmp", "ec_add_tmp"}

IsCall(e) == e[1] = "call"
IsFallibleCall(e) == IsCall(e) /\ e[2] \in FalliblePrimitives
CallsFallible(stmt) == stmt[1] \in {"let", "assign"} /\ IsFallibleCall(stmt[3])

\* The result of a fallible primitive called with flag `arg` whose own work
\* succeeds iff ok: the flag and the outcome, combined by AND.
primitive_result(arg, ok) == arg /\ ok

\* the flag an argument expression denotes
FlagOf(e, flag) == IF e = Var("success") THEN flag ELSE TRUE

\* the environment after a let or an assignment of a pointer
Bind(en, v, val) ==
    IF val = Opaque THEN [x \in DOMAIN en \ {v} |-> en[x]]
    ELSE [x \in DOMAIN en \cup {v} |-> IF x = v THEN val ELSE en[x]]

\* variables declared by a loop's init block: out of scope after the loop
Declared(init) == {init[k][2] : k \in {n \in 1..Len(init) : init[n][1] = "let"}}

(***************************************************************************)
(* Field values and scratch memory of the executed program.  The scalar    *)
(* field is scaled down to a 7-bit prime; curve points, calldata and       *)
(* never-written memory carry no value.  A memory word remembers the stage *)
(* and the operation that wrote it last.                                   *)
(***************************************************************************)
\* the Yul constant r, the modulus of the scalar field (here a small prime)
r == 127

\* the value of a word that is not tracked
NoValue == -1

mulmod(a, b) == IF a = NoValue \/ b = NoValue THEN NoValue ELSE (a * b) % r
addmod(a, b) == IF a = NoValue \/ b = NoValue THEN NoValue ELSE (a + b) % r

\* the field inverse, 0 for 0 (as the modular exponentiation by r - 2 gives)
Inv(v) ==
    IF v = NoValue THEN NoValue
    ELSE IF v % r = 0 THEN 0
    ELSE CHOOSE y \in 1..(r - 1) : (v * y) % r = 1

\* The verifier's transcript: the challenges read through X_MPTR, OMEGA_MPTR,
\* OMEGA_INV_MPTR, MU_MPTR, ZETA_MPTR, NU_MPTR, and a salt for the evaluations.
\* omega_inv is the inverse of omega, and mu is none of the opening points.
Proofs ==
    {[x |-> 5, omega |-> 3, omega_inv |-> 85, mu |-> 10, zeta |-> 4, nu |-> 6, salt |-> 1],
     [x |-> 7, omega |-> 9, omega_inv |-> 113, mu |-> 50, zeta |-> 11, nu |-> 2, salt |-> 8]}

NoProof == [x |-> 0, omega |-> 0, omega_inv |-> 0, mu |-> 0, zeta |-> 0, nu |-> 0, salt |-> 0]

\* the named memory slots that hold the challenges when the program starts
transcript(p) ==
    (Sym("X_MPTR") :> p.x) @@ (Sym("OMEGA_MPTR") :> p.omega)
        @@ (Sym("OMEGA_INV_MPTR") :> p.omega_inv) @@ (Sym("MU_MPTR") :> p.mu)
        @@ (Sym("ZETA_MPTR") :> p.zeta) @@ (Sym("NU_MPTR") :> p.nu)

EvalKinds ==
    [advice_eval |-> 1, perm_z_eval |-> 2, lookup_eval |-> 3, fixed_eval |-> 4,
     permutation_eval |-> 5, quotient_eval |-> 6, random_eval |-> 7]

\* the value a rendered evaluation expression <<"text", kind, a, b>> reads
\* from the proof
eval_value(e, p) == (17 * EvalKinds[e[2]] + 5 * e[3] + 3 * e[4] + p.salt) % r

\* the scratch address a pointer expression denotes
AddrOf(a) == U256ToInt(Eval(a, env))

RECURSIVE Value(_)
\* the field value of an emitted expression in the current state
Value(e) ==
    IF e[1] = "lit" THEN e[2] % r
    ELSE IF e[1] = "text" THEN eval_value(e, proof)
    ELSE IF e[1] = "var" THEN (IF e \in DOMAIN fenv THEN fenv[e] ELSE NoValue)
    ELSE IF e[1] # "call" THEN NoValue
    ELSE IF e[2] = "mload"
    THEN LET a == e[3][1]
         IN IF a[1] = "sym" THEN (IF a \in DOMAIN fenv THEN fenv[a] ELSE NoValue)
            ELSE IF AddrOf(a) \in DOMAIN mem THEN mem[AddrOf(a)].val ELSE NoValue
    ELSE IF e[2] = "mulmod" THEN mulmod(Value(e[3][1]), Value(e[3][2]))
    ELSE IF e[2] = "addmod" THEN addmod(Value(e[3][1]), Value(e[3][2]))
    ELSE IF e[2] = "sub" /\ e[3][1][1] = "sym"
    THEN LET v == Value(e[3][2]) IN IF v = NoValue THEN NoValue ELSE r - v
    ELSE NoValue

RECURSIVE Loads(_)
\* the scratch addresses an expression reads with mload
Loads(e) ==
    IF e[1] # "call" THEN {}
    ELSE IF e[2] = "mload"
    THEN (IF e[3][1][1] = "sym" THEN {} ELSE {AddrOf(e[3][1])})
    ELSE UNION {Loads(e[3][k]) : k \in 1..Len(e[3])}

\* The words a primitive consumes and overwrites in place: batch_invert the
\* block [0, end), the ec_*_acc the accumulator point at 0x00/0x20, the
\* ec_*_tmp the temporary point at 0x80/0xa0.
PrimitiveBlock(f, args) ==
    IF f = "batch_invert"
    THEN LET k == CHOOSE n \in 1..Len(args) : args[n][1] = "lit"
         IN {n * WORD : n \in 0..(args[k][2] \div WORD - 1)}
    ELSE IF f \in {"ec_mul_acc", "ec_add_acc"} THEN {0, WORD}
    ELSE {4 * WORD, 5 * WORD}

\* what a primitive leaves in a word of its block that held v
primitive_value(f, v, ok) == IF f = "batch_invert" /\ ok THEN Inv(v) ELSE NoValue

ValueAt(a) == IF a \in DOMAIN mem THEN mem[a].val ELSE NoValue
WriterOf(a) == IF a \in DOMAIN mem THEN mem[a].by ELSE <<"none", "none">>

\* the reads of one statement: address, reading stage and operation, last writer
ReadEvents(addrs, stage, op) ==
    {[addr |-> a, stage |-> stage, op |-> op, by |-> WriterOf(a)] : a \in addrs}

\* the effect of a let, declaration, assignment or mstore of stage `stage` on
\* the field variables and the memory
ExecMem(stmt, stage, ok) ==
    IF CallsFallible(stmt)
    THEN LET f == stmt[3][2]
             args == stmt[3][3]
             block == PrimitiveBlock(f, args)
         IN /\ mem' = [a \in DOMAIN mem \cup block |->
                          IF a \in block
                          THEN [val |-> primitive_value(f, ValueAt(a), ok), by |-> <<stage, f>>]
                          ELSE mem[a]]
            /\ fenv' = fenv
            /\ reads' = ReadEvents(block \cup UNION {Loads(args[k]) : k \in 1..Len(args)},
                                   stage, f)
    ELSE IF stmt[1] = "mstore"
    THEN /\ IF stmt[2][1] = "sym"
            THEN /\ fenv' = [v \in DOMAIN fenv \cup {stmt[2]} |->
                                IF v = stmt[2] THEN Value(stmt[3]) ELSE fenv[v]]
                 /\ mem' = mem
            ELSE /\ mem' = [a \in DOMAIN mem \cup {AddrOf(stmt[2])} |->
                               IF a = AddrOf(stmt[2])
                               THEN [val |-> Value(stmt[3]), by |-> <<stage, "mstore">>]
                               ELSE mem[a]]
                 /\ fenv' = fenv
         /\ reads' = ReadEvents(Loads(stmt[3]), stage, "mload")
    ELSE IF stmt[1] \in {"let", "assign"}
    THEN /\ fenv' = [v \in DOMAIN fenv \cup {stmt[2]} |->
                        IF v = stmt[2] THEN Value(stmt[3]) ELSE fenv[v]]
         /\ mem' = mem
         /\ reads' = ReadEvents(Loads(stmt[3]), stage, "mload")
    ELSE /\ fenv' = fenv
         /\ mem' = mem
         /\ reads' = {}

(***************************************************************************)
(* The state machine: the pipeline of shplonk_computations() and then the  *)
(* execution of the program it returned.                                   *)
(***************************************************************************)
Inputs(maxAdvice, maxPerm, maxLookup, maxFixed, maxPermCols) ==
    {<<MetaOf(advice, fixed, ncols, last), DataOf(P, L)>> :
        advice \in SeqsUpTo(AdviceQueryPool, maxAdvice),
        fixed \in SeqsUpTo(FixedQueryPool, maxFixed),
        ncols \in 0..maxPermCols,
        last \in RotationLasts,
        P \in 0..maxPerm,
        L \in 0..maxLookup}

NoPart == [panic |-> 0, superset |-> {}, sets |-> <<>>]
NoOut == [panic |-> FALSE, groups |-> <<>>]
NoXpc == [g |-> 0, i |-> 0, ph |-> "top", j |-> 0]

InitFrom(inputs) ==
    /\ \E input \in inputs : meta = input[1] /\ data = input[2]
    /\ pc = "start"
    /\ qs = <<>>
    /\ part = NoPart
    /\ out = NoOut
    /\ xpc = NoXpc
    /\ env = <<>>
    /\ success = TRUE
    /\ failed = FALSE
    /\ iters = <<>>
    /\ nexec = 0
    /\ proof = NoProof
    /\ fenv = <<>>
    /\ mem = <<>>
    /\ reads = {}

Init == InitFrom(Inputs(MaxAdvice, MaxPerm, MaxLookup, MaxFixed, MaxPermCols))

\* the inputs whose programs are executed: no fixed queries, no permutation columns
InitExec == InitFrom(Inputs(ExecMaxAdvice, ExecMaxPerm, ExecMaxLookup, 0, 0))

\* line 160
CallQueries ==
    /\ pc = "start"
    /\ qs' = queries(meta, data)
    /\ pc' = "queried"
    /\ UNCHANGED <<meta, data, part, out, xpc, env, success, failed, iters, nexec,
                   proof, fenv, mem, reads>>

\* line 161
CallRotationSets ==
    /\ pc = "queried"
    /\ part' = rotation_sets(qs)
    /\ pc' = IF part'.panic # 0 THEN "aborted" ELSE "partitioned"
    /\ UNCHANGED <<meta, data, qs, out, xpc, env, success, failed, iters, nexec,
                   proof, fenv, mem, reads>>

\* lines 163-602
Emit ==
    /\ pc = "partitioned"
    /\ out' = emit(part.superset, part.sets, data)
    /\ pc' = IF out'.panic THEN "aborted" ELSE "generated"
    /\ UNCHANGED <<meta, data, qs, part, xpc, env, success, failed, iters, nexec,
                   proof, fenv, mem, reads>>

\* the position after group g, statement i
After(g, i) ==
    IF i < Len(out.groups[g]) THEN [g |-> g, i |-> i + 1, ph |-> "top", j |-> 0]
    ELSE IF g < Len(out.groups) THEN [g |-> g + 1, i |-> 1, ph |-> "top", j |-> 0]
    ELSE NoXpc

\* the caller starts the returned program with the flag set and the
\* challenges of some proof in their slots
Start ==
    /\ pc = "generated"
    /\ pc' = "running"
    /\ xpc' = [g |-> 1, i |-> 1, ph |-> "top", j |-> 0]
    /\ \E p \in Proofs : proof' = p /\ fenv' = transcript(p)
    /\ mem' = <<>>
    /\ reads' = {}
    /\ UNCHANGED <<meta, data, qs, part, out, env, success, failed, iters, nexec>>

\* a let, declaration, assignment or mstore; ok: whether a primitive it calls succeeds
ExecSimple(stmt, ok) ==
    /\ nexec' = nexec + 1
    /\ IF CallsFallible(stmt)
       THEN /\ success' = IF stmt[2] = Var("success")
                          THEN primitive_result(FlagOf(stmt[3][3][1], success), ok)
                          ELSE success
            /\ failed' = (failed \/ ~ok)
            /\ env' = env
       ELSE /\ success' = success
            /\ failed' = failed
            /\ env' = IF stmt[1] \in {"let", "assign"}
                      THEN Bind(env, stmt[2], Eval(stmt[3], env))
                      ELSE env

Step ==
    /\ pc = "running"
    /\ LET cur == out.groups[xpc.g][xpc.i].stmt
           stage == out.groups[xpc.g][xpc.i].stage
       IN IF cur[1] # "for"
          THEN /\ \E ok \in BOOLEAN : ExecSimple(cur, ok) /\ ExecMem(cur, stage, ok)
               /\ xpc' = After(xpc.g, xpc.i)
               /\ iters' = iters
          ELSE IF xpc.ph = "top"
          THEN /\ xpc' = [xpc EXCEPT !.ph = "init", !.j = 1]
               /\ iters' = <<>>
               /\ reads' = {}
               /\ UNCHANGED <<env, success, failed, nexec, fenv, mem>>
          ELSE IF xpc.ph = "init"
          THEN /\ \E ok \in BOOLEAN :
                     ExecSimple(cur[2][xpc.j], ok) /\ ExecMem(cur[2][xpc.j], stage, ok)
               /\ xpc' = IF xpc.j < Len(cur[2]) THEN [xpc EXCEPT !.j = xpc.j + 1]
                         ELSE [xpc EXCEPT !.ph = "cond", !.j = 0]
               /\ iters' = iters
          ELSE IF xpc.ph = "cond"
          THEN IF EvalCond(cur[3], env)
               THEN /\ xpc' = [xpc EXCEPT !.ph = "body", !.j = 1]
                    /\ iters' = Append(iters, env)
                    /\ reads' = {}
                    /\ UNCHANGED <<env, success, failed, nexec, fenv, mem>>
               ELSE /\ xpc' = After(xpc.g, xpc.i)
                    /\ env' = [v \in DOMAIN env \ Declared(cur[2]) |-> env[v]]
                    /\ fenv' = [v \in DOMAIN fenv \ Declared(cur[2]) |-> fenv[v]]
                    /\ reads' = {}
                    /\ UNCHANGED <<success, failed, iters, nexec, mem>>
          ELSE /\ \E ok \in BOOLEAN :
                     ExecSimple(cur[4][xpc.j], ok) /\ ExecMem(cur[4][xpc.j], stage, ok)
               /\ xpc' = IF xpc.j < Len(cur[4]) THEN [xpc EXCEPT !.j = xpc.j + 1]
                         ELSE [xpc EXCEPT !.ph = "cond", !.j = 0]
               /\ iters' = iters
    /\ pc' = IF xpc'.g = 0 THEN "done" ELSE "running"
    /\ UNCHANGED <<meta, data, qs, part, out, proof>>

Next == CallQueries \/ CallRotationSets \/ Emit

NextExec == Next \/ Start \/ Step

Spec == Init /\ [][Next]_vars

SpecExec == InitExec /\ [][NextExec]_vars

(***************************************************************************)
(* Properties.                                                             *)
(***************************************************************************)
Queried == pc # "start"
\* rotation_sets(qs) has returned
Returned == pc \in {"partitioned", "generated", "aborted", "running", "done"} /\ part.panic = 0
Generated == pc \in {"generated", "running", "done"}

NumAdviceQ == Len(meta.advice_queries)
NumZ == Len(data.permutation_z_comms)
NumZLast == IF NumZ = 0 THEN 0 ELSE NumZ - 1
NumLookup == Len(data.lookup_z_comms)
NumFixedQ == Len(meta.fixed_queries)
NumPermCols == Len(meta.permutation_columns)

\* the (commitment, rotation) the claimed order puts at place i of the list
ExpectedAt(i) ==
    LET a == i
        z == a - NumAdviceQ
        zl == z - 2 * NumZ
        l == zl - NumZLast
        f == l - 5 * NumLookup
        c == f - NumFixedQ
        t == c - NumPermCols
    IN IF a <= NumAdviceQ
       THEN <<data.advice_comms[meta.advice_queries[a][1]], meta.advice_queries[a][2]>>
       ELSE IF z <= 2 * NumZ
       THEN <<data.permutation_z_comms[(z + 1) \div 2], (z + 1) % 2>>
       ELSE IF zl <= NumZLast
       THEN <<data.permutation_z_comms[NumZ - zl], meta.rotation_last>>
       ELSE IF l <= 5 * NumLookup
       THEN LET n == (l + 4) \div 5
                k == l - 5 * (n - 1)
            IN CASE k = 1 -> <<data.lookup_z_comms[n], 0>>
                 [] k = 2 -> <<data.lookup_permuted_comms[n][1], 0>>
                 [] k = 3 -> <<data.lookup_permuted_comms[n][2], 0>>
                 [] k = 4 -> <<data.lookup_permuted_comms[n][1], -1>>
                 [] k = 5 -> <<data.lookup_z_comms[n], 1>>
       ELSE IF f <= NumFixedQ
       THEN <<data.fixed_comms[meta.fixed_queries[f][1]], meta.fixed_queries[f][2]>>
       ELSE IF c <= NumPermCols
       THEN <<data.permutation_comms[meta.permutation_columns[c]], 0>>
       ELSE IF t = 1 THEN <<data.quotient_comm, 0>>
       ELSE <<data.random_comm, 0>>

QueriesOf(c) == {k \in 1..Len(qs) : qs[k].comm = c}
KeysOf(c) == {qs[k].rotation : k \in QueriesOf(c)}
Comms == {qs[k].comm : k \in 1..Len(qs)}
FirstQuery(c) == Min(QueriesOf(c))
EvalAt(c, rotation) == qs[CHOOSE k \in QueriesOf(c) : qs[k].rotation = rotation].eval
\* the places <<set, index>> at which c occurs in the returned sets
PlacesOf(c) == {<<i, j>> \in (1..Len(part.sets)) \X (1..Len(qs)) :
                    j <= Len(part.sets[i].comms) /\ part.sets[i].comms[j] = c}

\* C2: when rotation_sets() returns, every commitment of the queries is in the
\* comms of exactly one set, once; that set's rotations are the rotations the
\* commitment is queried at, and its evals entry lists the rendered evaluations
\* in ascending rotation order.
C2_OneSetPerCommitment ==
    Returned =>
        \A c \in Comms :
            /\ Cardinality(PlacesOf(c)) = 1
            /\ \A p \in PlacesOf(c) :
                LET set == part.sets[p[1]]
                    rs == Ascending(KeysOf(c))
                IN /\ set.rotations = KeysOf(c)
                   /\ Len(set.evals) = Len(set.comms)
                   /\ set.evals[p[2]] = [n \in 1..Len(rs) |-> to_string(EvalAt(c, rs[n]))]

\* a commitment queried first at a higher and then at a lower rotation
C2_Witness ==
    /\ pc = "partitioned"
    /\ \E c \in Comms : \E k1, k2 \in QueriesOf(c) : k1 < k2 /\ qs[k1].rotation > qs[k2].rotation

\* C3: when rotation_sets() returns, diffs and rotations of every set partition
\* the superset, the set of all rotations of the whole query list.
C3_DiffsComplement ==
    Returned =>
        /\ part.superset = {qs[k].rotation : k \in 1..Len(qs)}
        /\ \A i \in 1..Len(part.sets) :
            /\ part.sets[i].diffs \cup part.sets[i].rotations = part.superset
            /\ part.sets[i].diffs \cap part.sets[i].rotations = {}

\* the first set lacks a rotation that is first queried after all the queries
\* of that set's commitments
C3_Witness ==
    /\ pc = "partitioned"
    /\ \E rot \in part.sets[1].diffs :
        \A j \in 1..Len(part.sets[1].comms) : \A k \in QueriesOf(part.sets[1].comms[j]) :
            k < Min({n \in 1..Len(qs) : qs[n].rotation = rot})

\* first query of any commitment whose rotations are those of set i
FirstOfSet(i) == Min({FirstQuery(c) : c \in {x \in Comms : KeysOf(x) = part.sets[i].rotations}})

\* C4: the sets are in first-encounter order of their rotation-key sets, the
\* commitments of a set in order of their first query; two commitments queried
\* only at {0, 1} are in one and the same set, in that order.
C4_FirstEncounterOrder ==
    Returned =>
        /\ \A i, j \in 1..Len(part.sets) :
            i # j => ((i < j) <=> (FirstOfSet(i) < FirstOfSet(j)))
        /\ \A i \in 1..Len(part.sets) : \A a, b \in 1..Len(part.sets[i].comms) :
            a < b => FirstQuery(part.sets[i].comms[a]) < FirstQuery(part.sets[i].comms[b])
        /\ \A A, B \in Comms :
            (KeysOf(A) = {0, 1} /\ KeysOf(B) = {0, 1} /\ FirstQuery(A) < FirstQuery(B)) =>
                \E i \in 1..Len(part.sets) :
                    /\ \A p \in PlacesOf(A) \cup PlacesOf(B) : p[1] = i
                    /\ \E a, b \in 1..Len(part.sets[i].comms) :
                        a < b /\ part.sets[i].comms[a] = A /\ part.sets[i].comms[b] = B

C4_Witness ==
    /\ pc = "partitioned"
    /\ Len(part.sets) >= 3
    /\ \E A, B \in Comms : A # B /\ KeysOf(A) = {0, 1} /\ KeysOf(B) = {0, 1}

\* query k repeats the commitment and the rotation of an earlier query
Repeats(k) == \E i \in 1..(k - 1) : qs[i].comm = qs[k].comm /\ qs[i].rotation = qs[k].rotation
HasRepeat == \E k \in 1..Len(qs) : Repeats(k)

\* C5: if two queries have value-equal commitments and the same rotation
\* (whatever their categories; so whenever rotation_last is 0 or 1 and there are
\* two grand products), rotation_sets() aborts at the repeating query, returning
\* no superset and no sets, and shplonk_computations() returns no group.
C5_DuplicateAborts ==
    /\ (Queried /\ meta.rotation_last \in {0, 1} /\ NumZ >= 2) => HasRepeat
    /\ (pc \notin {"start", "queried"} /\ HasRepeat) =>
        /\ pc = "aborted"
        /\ part.panic = Min({k \in 1..Len(qs) : Repeats(k)})
        /\ part.superset = {} /\ part.sets = <<>>
        /\ out.groups = <<>>
        /\ shplonk_computations(meta, data).panic
        /\ shplonk_computations(meta, data).groups = <<>>

\* aborted on a fixed-column query repeating an advice-column query
C5_Witness ==
    /\ pc = "aborted" /\ part.panic # 0
    /\ qs[part.panic].eval[1] = "fixed_eval"
    /\ \E i \in 1..(part.panic - 1) :
        /\ qs[i].comm = qs[part.panic].comm /\ qs[i].rotation = qs[part.panic].rotation
        /\ qs[i].eval[1] = "advice_eval"

\* the layout of a generated program, and its regions as <<first byte, end>>
Lay == layout(part.superset, part.sets)
NumSets == Len(part.sets)
Words(lo, n) == <<lo, lo + n * WORD>>
Disjoint(r1, r2) == r1[2] <= r2[1] \/ r2[2] <= r1[1]
PairwiseDisjoint(rs) == \A a, b \in 1..Len(rs) : a # b => Disjoint(rs[a], rs[b])

DiffZeroRegion == Words(Lay.diff_0_mptr, 1)
CoeffRegions == [i \in 1..NumSets |-> Words(Lay.coeff_mptr[i], Cardinality(part.sets[i].rotations))]
BatchInvert1Region == <<0, Lay.batch_invert_1_end>>
BatchInvert2Region == <<0, Lay.batch_invert_2_end>>
PointRegion == Words(Lay.point_mptr[Lay.min_rotation], Cardinality(part.superset))
MuMinusPointRegion == Words(Lay.mu_minus_point_mptr[Lay.min_rotation], Cardinality(part.superset))
VanishingRegion == Words(Lay.vanishing_mptr, 1)
DiffRegions == [i \in 1..NumSets |-> Words(Lay.diff_mptr + (i - 1) * WORD, 1)]
REvalRegions == [i \in 1..NumSets |-> Words(Lay.r_eval_mptr + (i - 1) * WORD, 1)]
SumRegions == [i \in 1..NumSets |-> Words(Lay.sum_mptr + (i - 1) * WORD, 1)]

\* the regions above the batch-inversion blocks
UpperRegions ==
    <<PointRegion, MuMinusPointRegion, VanishingRegion>>
        \o DiffRegions \o REvalRegions \o SumRegions

\* C6 as claimed: the diff-zero word, the coefficient arrays, the two
\* batch-inversion regions, the two tables, the vanishing word and the per-set
\* diff, r_eval and sum words are pairwise disjoint.
C6_AllRegionsDisjoint ==
    pc = "generated" =>
        PairwiseDisjoint(<<DiffZeroRegion>> \o CoeffRegions
                            \o <<BatchInvert1Region, BatchInvert2Region>> \o UpperRegions)

\* C6 amended: the diff-zero word, the coefficient arrays, the two tables, the
\* vanishing word and the per-set diff, r_eval and sum words are pairwise
\* disjoint; the batch-inversion-1 block is the diff-zero word followed by the
\* coefficient arrays, the batch-inversion-2 block is its first |sets| words,
\* and both are disjoint from every other region.
C6_RegionsDisjoint ==
    pc = "generated" =>
        /\ PairwiseDisjoint(<<DiffZeroRegion>> \o CoeffRegions \o UpperRegions)
        /\ DiffZeroRegion[1] = BatchInvert1Region[1]
        /\ CoeffRegions[1][1] = DiffZeroRegion[2]
        /\ \A i \in 1..(NumSets - 1) : CoeffRegions[i + 1][1] = CoeffRegions[i][2]
        /\ CoeffRegions[NumSets][2] = BatchInvert1Region[2]
        /\ BatchInvert2Region[1] = BatchInvert1Region[1]
        /\ BatchInvert2Region[2] = NumSets * WORD
        /\ BatchInvert2Region[2] <= BatchInvert1Region[2]
        /\ \A k \in 1..Len(UpperRegions) :
            Disjoint(BatchInvert1Region, UpperRegions[k])
                /\ Disjoint(BatchInvert2Region, UpperRegions[k])
        /\ \A rot \in part.superset :
            /\ PointRegion[1] <= Lay.point_mptr[rot]
            /\ Lay.point_mptr[rot] + WORD <= PointRegion[2]
            /\ MuMinusPointRegion[1] <= Lay.mu_minus_point_mptr[rot]
            /\ Lay.mu_minus_point_mptr[rot] + WORD <= MuMinusPointRegion[2]

C6_Witness ==
    /\ pc = "generated"
    /\ NumSets >= 3
    /\ \E i \in 1..NumSets : Cardinality(part.sets[i].rotations) >= 2

\* place of a stage in the list (a)..(k); the coefficient sums are not listed
ListedRank(stage) ==
    CASE stage = "a" -> 1 [] stage = "b" -> 2 [] stage = "c" -> 3 [] stage = "d" -> 4
      [] stage = "e" -> 5 [] stage = "f" -> 6 [] stage = "g" -> 7 [] stage = "h" -> 8
      [] stage = "i" -> 9 [] stage = "j" -> 10 [] stage = "k" -> 11 [] stage = "sum" -> 0

\* place of a stage in the order a, b, c, d, f, e, h, sums, g, i, j, k
EmittedRank(stage) ==
    CASE stage = "a" -> 1 [] stage = "b" -> 2 [] stage = "c" -> 3 [] stage = "d" -> 4
      [] stage = "f" -> 5 [] stage = "e" -> 6 [] stage = "h" -> 7 [] stage = "sum" -> 8
      [] stage = "g" -> 9 [] stage = "i" -> 10 [] stage = "j" -> 11 [] stage = "k" -> 12

Stages == {"a", "b", "c", "d", "e", "f", "g", "h", "i", "j", "k", "sum"}

StoresVar(stmt, name) ==
    stmt[1] = "mstore" /\ stmt[3][1] = "var" /\ stmt[3][2] = name /\ stmt[2][1] = "lit"
CallsPrimitive(stmt, f) == CallsFallible(stmt) /\ stmt[3][2] = f

BatchInverts(flat) == {p \in 1..Len(flat) : CallsPrimitive(flat[p].stmt, "batch_invert")}
CoeffStores(flat) == {p \in 1..Len(flat) : StoresVar(flat[p].stmt, "coeff")}
REvalStores(flat) == {p \in 1..Len(flat) : StoresVar(flat[p].stmt, "r_eval")}

\* C7 as claimed: the statements are in the order (a), (b), .., (k) of the
\* stage list; the first batch_invert precedes every coefficient store and the
\* second every per-set r_eval store.
C7_ListedOrder ==
    pc = "generated" =>
        LET flat == Concat(out.groups)
            listed == {p \in 1..Len(flat) : flat[p].stage # "sum"}
        IN /\ \A p, q \in listed :
                p < q => ListedRank(flat[p].stage) <= ListedRank(flat[q].stage)
           /\ \A p \in CoeffStores(flat) : Min(BatchInverts(flat)) < p
           /\ \A p \in REvalStores(flat) : Max(BatchInverts(flat)) < p

\* C7 amended: the statements are in the order (a), (b), (c), (d), (f), (e),
\* (h), coefficient sums, (g), (i), (j), (k); every coefficient store precedes
\* the first batch_invert, and every per-set r_eval store lies between the
\* first and the second batch_invert.
C7_EmittedOrder ==
    pc = "generated" =>
        LET flat == Concat(out.groups)
        IN /\ \A p \in 1..(Len(flat) - 1) :
                EmittedRank(flat[p].stage) <= EmittedRank(flat[p + 1].stage)
           /\ {flat[p].stage : p \in 1..Len(flat)} = Stages
           /\ Cardinality(BatchInverts(flat)) = 2
           /\ {flat[p].stage : p \in BatchInverts(flat)} = {"e", "g"}
           /\ Cardinality(CoeffStores(flat)) = SumLen(part.sets, NumSets)
           /\ \A p \in CoeffStores(flat) :
                flat[p].stage = "f" /\ p < Min(BatchInverts(flat))
           /\ Cardinality(REvalStores(flat)) = NumSets
           /\ \A p \in REvalStores(flat) :
                /\ flat[p].stage = "h"
                /\ Min(BatchInverts(flat)) < p /\ p < Max(BatchInverts(flat))

C7_Witness ==
    /\ pc = "generated"
    /\ NumSets >= 3
    /\ LET flat == Concat(out.groups)
       IN \E p \in CoeffStores(flat) : \E q \in REvalStores(flat) :
            p < Min(BatchInverts(flat)) /\ q < Max(BatchInverts(flat))

\* The shape of stage (j) when the set `unscaled` is the one taken with scale 1.
\* Length of the block of set idx: two stores, a multiplication and an addition
\* per further commitment, the diff-product multiplication, and the two
\* statements folding a temporary accumulator into the running one.
MsmBlockLen(idx, unscaled) ==
    2 * Len(part.sets[idx].comms)
        + (IF idx # unscaled THEN 1 ELSE 0) + (IF idx # NumSets THEN 2 ELSE 0)

RECURSIVE MsmBlockStart(_, _)
\* the sets are processed from last to first
MsmBlockStart(idx, unscaled) ==
    IF idx = NumSets THEN 1
    ELSE MsmBlockStart(idx + 1, unscaled) + MsmBlockLen(idx + 1, unscaled)

MsmBlockOk(js, idx, unscaled) ==
    LET comms == part.sets[idx].comms
        n == Len(comms)
        at(k) == js[MsmBlockStart(idx, unscaled) + k - 1].stmt
        len == MsmBlockLen(idx, unscaled)
        acc == idx = NumSets
        mul == IF acc THEN "ec_mul_acc" ELSE "ec_mul_tmp"
        add == IF acc THEN "ec_add_acc" ELSE "ec_add_tmp"
    IN /\ at(1) = Mstore(Lit(IF acc THEN 0 ELSE 128), X(comms[n]))
       /\ at(2) = Mstore(Lit(IF acc THEN 32 ELSE 160), Y(comms[n]))
       /\ \A k \in 1..(n - 1) :
            /\ at(2 * k + 1) = Fallible(mul, <<Mload(Sym("ZETA_MPTR"))>>)
            /\ at(2 * k + 2) = Fallible(add, <<X(comms[n - k]), Y(comms[n - k])>>)
       /\ idx # unscaled =>
            at(2 * n + 1) = Fallible(mul, <<MloadAt(Lay.diff_mptr + (idx - 1) * WORD)>>)
       /\ ~acc =>
            /\ at(len - 1) = Fallible("ec_mul_acc", <<Mload(Sym("NU_MPTR"))>>)
            /\ at(len) = Fallible("ec_add_acc", <<MloadAt(128), MloadAt(160)>>)

MsmShape(unscaled) ==
    LET js == SelectSeq(Concat(out.groups), LAMBDA st : st.stage = "j")
    IN /\ Len(js) = MsmBlockStart(1, unscaled) + MsmBlockLen(1, unscaled) - 1
       /\ \A idx \in 1..NumSets : MsmBlockOk(js, idx, unscaled)

\* C9 as claimed: in the multi-scalar accumulation the sets are processed from
\* last to first, each Horner-folded with zeta from its last commitment; the
\* last set is taken with scale 1 (no diff-product multiplication), every other
\* set is multiplied by its diff-product slot, and for every set but the last
\* the running accumulator is multiplied by nu before the set is added.
C9_LastSetUnscaled == pc = "generated" => MsmShape(NumSets)

\* C9 amended: as claimed, except that the set taken with scale 1 is the first
\* one (index 0): no diff-product multiplication is emitted for it, and every
\* other set, the last one included (on the running accumulator), is
\* multiplied by the value in its diff-product slot.
C9_FirstSetUnscaled == pc = "generated" => MsmShape(1)

C9_Witness ==
    /\ pc = "generated"
    /\ NumSets >= 3
    /\ Len(part.sets[NumSets].comms) >= 2
    /\ \E i \in 1..(NumSets - 1) : Len(part.sets[i].comms) >= 2

\* the group holding stage (i), and in it the aggregate loop
AggGroup == Len(out.groups) - 1
AggFor == CHOOSE p \in 1..Len(out.groups[AggGroup]) :
            out.groups[AggGroup][p].stage = "i" /\ out.groups[AggGroup][p].stmt[1] = "for"
\* the pointers at the start of fold number n, counting from 1
AggVisit(n) ==
    (Var("sum_inv_mptr") :> ToU256((NumSets - 1 - n) * WORD))
        @@ (Var("r_eval_mptr") :> ToU256(Lay.r_eval_mptr + (NumSets - 1 - n) * WORD))
AggVisitsOk ==
    \A n \in 1..Len(iters) : \A v \in DOMAIN AggVisit(n) : iters[n][v] = AggVisit(n)[v]

\* C8: with N sets, the aggregate-r_eval loop, run with 256-bit wrap-around
\* arithmetic after the seed sum_inv[N-1] * r_eval[N-1], starts at sum-inverse
\* pointer (N-2)*0x20 and r_eval pointer r_eval_mptr + (N-2)*0x20, visits the
\* indices N-2, .., 0 in that order, folds exactly N-1 times
\* (r_eval := r_eval * nu + sum_inv[i] * r_eval[i]) and stops; the result is
\* stored to R_EVAL_MPTR.
C8_AggregateLoop ==
    (pc = "running" /\ xpc.g = AggGroup /\ xpc.i >= AggFor) =>
        LET grp == out.groups[AggGroup]
            loop == grp[AggFor].stmt
            r_eval == Var("r_eval")
        IN /\ grp[AggFor - 1].stmt =
                Let(r_eval, Mulmod(MloadAt((NumSets - 1) * WORD),
                                   MloadAt(Lay.r_eval_mptr + (NumSets - 1) * WORD)))
           /\ loop[2][1] = Let(Var("sum_inv_mptr"), Lit((NumSets - 2) * WORD))
           /\ loop[2][3] = Let(Var("r_eval_mptr"), Lit(Lay.r_eval_mptr + (NumSets - 2) * WORD))
           /\ loop[4][1] = Assign(r_eval, Mulmod(r_eval, Mload(Sym("NU_MPTR"))))
           /\ loop[4][2] = Assign(r_eval, Addmod(r_eval,
                                Mulmod(Mload(Var("sum_inv_mptr")), Mload(Var("r_eval_mptr")))))
           /\ grp[AggFor + 1].stmt = Mstore(Sym("R_EVAL_MPTR"), r_eval)
           /\ (xpc.i = AggFor /\ xpc.ph \in {"cond", "body"}) =>
                /\ Len(iters) <= NumSets - 1
                /\ AggVisitsOk
                \* after the last fold the pointer has wrapped below zero
                /\ (xpc.ph = "cond" /\ Len(iters) = NumSets - 1) =>
                    /\ env[Var("sum_inv_mptr")] = U256Sub(ToU256(0), ToU256(WORD))
                    /\ ~IsSmall(env[Var("sum_inv_mptr")])
           /\ xpc.i = AggFor + 1 => (Len(iters) = NumSets - 1 /\ AggVisitsOk)

\* the loop has ended after at least two folds
C8_Witness ==
    /\ pc = "running" /\ xpc.g = AggGroup /\ xpc.i = AggFor + 1
    /\ NumSets >= 3
    /\ Len(iters) = NumSets - 1

RECURSIVE ContainsFallible(_)
ContainsFallible(e) ==
    /\ e[1] = "call"
    /\ (e[2] \in FalliblePrimitives \/ \E k \in 1..Len(e[3]) : ContainsFallible(e[3][k]))

RECURSIVE Mentions(_, _)
Mentions(e, v) ==
    \/ e = v
    \/ e[1] = "call" /\ \E k \in 1..Len(e[3]) : Mentions(e[3][k], v)

\* a statement that is not a loop: a call of a fallible primitive has the form
\* success := f(success, ..), and nothing else calls one or assigns the flag
SimpleOk(stmt) ==
    CASE stmt[1] = "decl" -> stmt[2] # Var("success")
      [] stmt[1] = "mstore" -> ~ContainsFallible(stmt[2]) /\ ~ContainsFallible(stmt[3])
      [] stmt[1] \in {"let", "assign"} ->
            IF ContainsFallible(stmt[3]) \/ stmt[2] = Var("success")
            THEN /\ stmt[1] = "assign" /\ stmt[2] = Var("success")
                 /\ stmt[3][1] = "call" /\ stmt[3][2] \in FalliblePrimitives
                 /\ stmt[3][3][1] = Var("success")
                 /\ \A k \in 2..Len(stmt[3][3]) : ~ContainsFallible(stmt[3][3][k])
            ELSE TRUE
      [] OTHER -> FALSE

\* a statement: simple, or a loop whose condition is a pointer comparison
StmtOk(stmt) ==
    IF stmt[1] = "for"
    THEN /\ stmt[3][1] = "call" /\ stmt[3][2] = "lt"
         /\ ~Mentions(stmt[3], Var("success")) /\ ~ContainsFallible(stmt[3])
         /\ \A k \in 1..Len(stmt[2]) : SimpleOk(stmt[2][k])
         /\ \A k \in 1..Len(stmt[4]) : SimpleOk(stmt[4][k])
    ELSE SimpleOk(stmt)

\* number of statements an execution runs: every loop runs its init once and
\* its body once per word of the block it walks
LoopRounds(stage) ==
    CASE stage = "b" -> Cardinality(part.superset)
      [] stage = "e" -> NumSets - 1
      [] stage = "g" -> NumSets
      [] stage = "i" -> NumSets - 1
RunLength(st) ==
    IF st.stmt[1] = "for" THEN Len(st.stmt[2]) + LoopRounds(st.stage) * Len(st.stmt[4]) ELSE 1
RECURSIVE SumRunLength(_, _)
SumRunLength(flat, n) == IF n = 0 THEN 0 ELSE RunLength(flat[n]) + SumRunLength(flat, n - 1)

\* C10: every emitted call of a fallible primitive passes the flag success
\* first and assigns the result to it, no statement is guarded by the flag;
\* once a primitive has reported failure the flag is false, up to the end of
\* the program, and all statements are executed all the same.
C10_SuccessThreaded ==
    /\ pc = "generated" =>
        \A g \in 1..Len(out.groups) : \A p \in 1..Len(out.groups[g]) :
            StmtOk(out.groups[g][p].stmt)
    /\ (pc \in {"running", "done"} /\ failed) => ~success
    /\ pc = "done" =>
        /\ success = ~failed
        /\ LET flat == Concat(out.groups) IN nexec = SumRunLength(flat, Len(flat))

\* the program has run to its end after a primitive reported failure
C10_Witness == pc = "done" /\ failed /\ ~success /\ nexec > 0

(***************************************************************************)
(* C11: the value of the r_eval slots.                                     *)
(***************************************************************************)
RECURSIVE PowMod(_, _)
PowMod(b, e) == IF e = 0 THEN 1 ELSE (b * PowMod(b, e - 1)) % r

\* x * omega^rotation, the opening point of a rotation
PointOf(rotation) ==
    IF rotation >= 0 THEN (proof.x * PowMod(proof.omega, rotation)) % r
    ELSE (proof.x * PowMod(proof.omega_inv, 0 - rotation)) % r

RECURSIVE MuMinusPoints(_)
\* the product of mu - point over a set of rotations
MuMinusPoints(rotations) ==
    IF rotations = {} THEN 1
    ELSE LET rotation == Min(rotations)
         IN ((proof.mu - PointOf(rotation) + r) * MuMinusPoints(rotations \ {rotation})) % r

\* the product over the diffs of set i of (mu - point)
DiffProduct(i) == MuMinusPoints(part.sets[i].diffs)

CoeffSlot(i, k) == Lay.coeff_mptr[i] + (k - 1) * WORD
DiffSlot(i) == Lay.diff_mptr + (i - 1) * WORD
REvalSlot(i) == Lay.r_eval_mptr + (i - 1) * WORD

RECURSIVE CoeffEvalSum(_, _, _)
\* the sum over the first k rotations of set i of (coefficient slot) * eval[j]
CoeffEvalSum(i, j, k) ==
    IF k = 0 THEN 0
    ELSE addmod(CoeffEvalSum(i, j, k - 1),
                mulmod(ValueAt(CoeffSlot(i, k)), eval_value(part.sets[i].evals[j][k], proof)))

RECURSIVE ZetaSum(_, _)
\* the sum over the first j commitments of set i of zeta^(j-1) * CoeffEvalSum
ZetaSum(i, j) ==
    IF j = 0 THEN 0
    ELSE addmod(ZetaSum(i, j - 1),
                mulmod(PowMod(proof.zeta, j - 1),
                       CoeffEvalSum(i, j, Cardinality(part.sets[i].rotations))))

\* the r_eval of set i has been stored and the set's coefficient slots still
\* hold what stage (h) read from them
REvalStored(i) ==
    /\ pc \in {"running", "done"}
    /\ ~failed
    /\ WriterOf(REvalSlot(i)) = <<"h", "mstore">>
    /\ \A k \in 1..Cardinality(part.sets[i].rotations) :
          WriterOf(CoeffSlot(i, k)) = <<"e", "batch_invert">>

\* the r_eval slot of set i holds the zeta-weighted sum, times the word of
\* the set's diff slot unless the set is the first
REvalValueOk(i) ==
    ValueAt(REvalSlot(i)) =
        IF i = 1 THEN ZetaSum(i, Len(part.sets[i].evals))
        ELSE mulmod(ZetaSum(i, Len(part.sets[i].evals)), ValueAt(DiffSlot(i)))

\* C11 as stated: each r_eval slot holds sum_j zeta^j * sum_k coeff[k] * eval[j][k],
\* and for i # 0 this is multiplied by the word of diff slot i, which is the
\* inverse of the product over the set's diffs of (mu - point).
C11_InvertedDiffProduct ==
    \A i \in 1..NumSets :
        REvalStored(i) =>
            /\ REvalValueOk(i)
            /\ i # 1 => ValueAt(DiffSlot(i)) = Inv(DiffProduct(i))

\* C11, amended: each r_eval slot holds sum_j zeta^j * sum_k coeff[k] * eval[j][k],
\* and for i # 0 this is multiplied by the word of diff slot i, which is the
\* set's diff product times the inverse of the first set's diff product.
C11_NormalizedDiffProduct ==
    \A i \in 1..NumSets :
        REvalStored(i) =>
            /\ REvalValueOk(i)
            /\ i # 1 => ValueAt(DiffSlot(i)) = mulmod(DiffProduct(i), Inv(DiffProduct(1)))

\* a later set with two commitments and two rotations has its r_eval stored,
\* computed from non-zero words
C11_Witness ==
    \E i \in 2..NumSets :
        /\ REvalStored(i)
        /\ Len(part.sets[i].comms) >= 2
        /\ Cardinality(part.sets[i].rotations) >= 2
        /\ ValueAt(REvalSlot(i)) \notin {NoValue, 0}
        /\ ValueAt(DiffSlot(i)) \notin {NoValue, 0, 1}
        /\ DiffProduct(1) \notin {0, 1}
        /\ \A k \in 1..Cardinality(part.sets[i].rotations) :
              ValueAt(CoeffSlot(i, k)) \notin {NoValue, 0}

(***************************************************************************)
(* C12: every read of scratch memory sees the write of its producer.       *)
(***************************************************************************)
InRegion(a, reg) == reg[1] <= a /\ a < reg[2]
InSomeRegion(a, regs) == \E i \in 1..Len(regs) : InRegion(a, regs[i])

AccWords == {0, WORD}
TmpWords == {4 * WORD, 5 * WORD}
AccWriters(stage) == {<<stage, "mstore">>, <<stage, "ec_mul_acc">>, <<stage, "ec_add_acc">>}
TmpWriters(stage) == {<<stage, "mstore">>, <<stage, "ec_mul_tmp">>, <<stage, "ec_add_tmp">>}

\* The writers that produce the value a read needs, by the reading stage and
\* the region of the address; none for an address the stage has no use for.
\*   (b) points; (c), (d) mu-minus-point; (f) points and mu-minus-point;
\*   (e) the diff-zero word and the coefficients, then diff_0_inv and the
\*   diff products; (h) and the sums: inverted coefficients, (h) also the
\*   normalised diff; (g) the sums, then their copy; (i) inverted sums and
\*   r_evals; (j) the normalised diffs and its two points; (k) the points
\*   and the vanishing factor.
Producers(ev) ==
    LET a == ev.addr
    IN CASE ev.stage = "b" ->
              IF InRegion(a, PointRegion) THEN {<<"a", "mstore">>} ELSE {}
         [] ev.stage \in {"c", "d"} ->
              IF InRegion(a, MuMinusPointRegion) THEN {<<"b", "mstore">>} ELSE {}
         [] ev.stage = "f" ->
              IF InRegion(a, PointRegion) THEN {<<"a", "mstore">>}
              ELSE IF InRegion(a, MuMinusPointRegion) THEN {<<"b", "mstore">>}
              ELSE {}
         [] ev.stage = "e" /\ ev.op = "batch_invert" ->
              IF a = Lay.diff_0_mptr THEN {<<"d", "mstore">>}
              ELSE IF InSomeRegion(a, CoeffRegions) THEN {<<"f", "mstore">>}
              ELSE {}
         [] ev.stage = "e" /\ ev.op # "batch_invert" ->
              IF a = Lay.diff_0_mptr THEN {<<"e", "batch_invert">>}
              ELSE IF InSomeRegion(a, Tail(DiffRegions)) THEN {<<"d", "mstore">>}
              ELSE {}
         [] ev.stage = "h" ->
              IF InSomeRegion(a, CoeffRegions) THEN {<<"e", "batch_invert">>}
              ELSE IF InSomeRegion(a, Tail(DiffRegions)) THEN {<<"e", "mstore">>}
              ELSE {}
         [] ev.stage = "sum" ->
              IF InSomeRegion(a, CoeffRegions) THEN {<<"e", "batch_invert">>} ELSE {}
         [] ev.stage = "g" /\ ev.op = "batch_invert" ->
              IF InRegion(a, BatchInvert2Region) THEN {<<"g", "mstore">>} ELSE {}
         [] ev.stage = "g" /\ ev.op # "batch_invert" ->
              IF InSomeRegion(a, SumRegions) THEN {<<"sum", "mstore">>} ELSE {}
         [] ev.stage = "i" ->
              IF InRegion(a, BatchInvert2Region) THEN {<<"g", "batch_invert">>}
              ELSE IF InSomeRegion(a, REvalRegions) THEN {<<"h", "mstore">>}
              ELSE {}
         [] ev.stage = "j" ->
              IF a \in AccWords THEN AccWriters("j")
              ELSE IF a \in TmpWords THEN TmpWriters("j")
              ELSE IF InSomeRegion(a, Tail(DiffRegions)) THEN {<<"e", "mstore">>}
              ELSE {}
         [] ev.stage = "k" ->
              IF a \in AccWords THEN AccWriters("j") \cup AccWriters("k")
              ELSE IF a \in TmpWords THEN TmpWriters("k")
              ELSE IF InRegion(a, VanishingRegion) THEN {<<"c", "mstore">>}
              ELSE {}
         [] OTHER -> {}

\* C12: every scratch word a statement of the running program reads (by mload,
\* in a loop, or as part of a block a primitive consumes) has been written, and
\* its last writer is the stage and operation that produce the value the
\* reader needs; no reuse of an address comes between.
C12_ReadsSeeProducer == \A ev \in reads : ev.by \in Producers(ev)

\* stage (i) reads an inverted sum from a word that held a coefficient before
\* the sums were copied over it
C12_Witness ==
    /\ pc = "running"
    /\ \E ev \in reads :
          /\ ev.stage = "i"
          /\ InSomeRegion(ev.addr, CoeffRegions)
          /\ ev.by = <<"g", "batch_invert">>

(***************************************************************************)
(* C13: generation aborts when a rotation set has no diffs.                *)
(***************************************************************************)
\* lines 163-602 have run on the result of rotation_sets()
EmitRan == part.panic = 0 /\ pc \in {"generated", "aborted", "running", "done"}

\* the panic left nothing behind
AbortedEmpty == pc = "aborted" /\ out.panic /\ out.groups = <<>>

\* every rotation of the query list
AllRotations == {qs[k].rotation : k \in 1..Len(qs)}

\* C13: shplonk_computations() aborts, returning no group, whenever some
\* rotation set has empty diffs, that is, whenever some commitment is queried at
\* every rotation of the superset; so it does for every input with exactly one
\* rotation set.  A program is produced only when every set has a diff rotation
\* and rotation 0 is in the superset.
C13_EmptyDiffsAbort ==
    /\ EmitRan /\ (\E i \in 1..NumSets : part.sets[i].diffs = {}) => AbortedEmpty
    /\ EmitRan /\ (\E c \in Comms : KeysOf(c) = AllRotations) => AbortedEmpty
    /\ EmitRan /\ NumSets = 1 => AbortedEmpty
    /\ Generated =>
          /\ \A i \in 1..NumSets : part.sets[i].diffs # {}
          /\ 0 \in part.superset
          /\ out.groups # <<>>

\* the panic of an input with several sets, the first of which has diffs
C13_Witness ==
    /\ EmitRan
    /\ pc = "aborted"
    /\ part.sets[1].diffs # {}
    /\ \E i \in 2..NumSets : part.sets[i].diffs = {}

====
